---------------------------- MODULE Spec2Model ----------------------------
(***************************************************************************)
(* A model of app/server.go: a one-request-per-connection HTTP/1.1 server. *)
(*                                                                         *)
(* Go strings are modelled as sequences of bytes, each byte a one-character*)
(* TLA+ string, so that prefix tests, splits, trims and the decimal        *)
(* conversions are computed the way the Go library computes them.          *)
(***************************************************************************)
EXTENDS Integers, Sequences, FiniteSets, TLC

VARIABLES
    process,   \* the server process: "running", "exited" (os.Exit(1)), "crashed" (panic)
    dir,       \* main's dir: the --directory argument, <<>> when not given
    files,     \* the byte-store: storage key (cleaned path) -> file content
    conns,     \* per connection: the handler goroutine's state and its socket
    lastPost,  \* history: request file name -> body of the last completed POST to it
    lastKey,   \* history: storage key -> body of the last completed POST to it
    faults,    \* the I/O failures (store, socket, listener) the environment has produced
    workload,  \* the clients of this run: "sequence", "concurrent" or "none"
    ser        \* the Response.String() harness: input Response and output bytes

vars == <<process, dir, files, conns, lastPost, lastKey, faults, workload, ser>>

(***************************************************************************)
(* Bounds of the model.                                                    *)
(***************************************************************************)
MaxConcurrent == 2 \* connections handled at the same time
MaxEchoLen == 2    \* length of the generated /echo/ remainders
MaxBodyLen == 2    \* length of the generated Response bodies
MaxFaults == 1     \* I/O failures the environment produces in one run
BufSize == 66      \* bufio.Writer's buffer (4096 in Go), scaled to the model's responses

(***************************************************************************)
(* Byte strings.                                                           *)
(***************************************************************************)
CR == "\r"
LF == "\n"
CRLF == <<CR, LF>>
SP == <<" ">>

Digits == <<"0", "1", "2", "3", "4", "5", "6", "7", "8", "9">>

IsDigit(b) == \E i \in 1..10 : Digits[i] = b

DigitVal(b) == (CHOOSE i \in 1..10 : Digits[i] = b) - 1

\* All byte strings over alphabet of length at most n.
StringsUpTo(alphabet, n) == UNION {[1..k -> alphabet] : k \in 0..n}

\* s[from:] in Go (from is a 0-based offset).
DropBytes(s, from) == SubSeq(s, from + 1, Len(s))

\* s[:to] in Go.
TakeBytes(s, to) == SubSeq(s, 1, to)

\* strings.HasPrefix
HasPrefix(s, prefix) ==
    /\ Len(s) >= Len(prefix)
    /\ TakeBytes(s, Len(prefix)) = prefix

\* Whether sep occurs in s at 0-based offset i.
OccursAt(s, sep, i) ==
    /\ i + Len(sep) <= Len(s)
    /\ \A k \in 1..Len(sep) : s[i + k] = sep[k]

\* strings.Index: the 0-based offset of the first occurrence of sep, or -1.
Index(s, sep) ==
    LET hits == {i \in 0..Len(s) : OccursAt(s, sep, i)}
    IN  IF hits = {} THEN -1
        ELSE CHOOSE i \in hits : \A j \in hits : i <= j

\* strings.Contains
Contains(s, sep) == Index(s, sep) >= 0

\* strings.SplitN(s, sep, 2): at most two parts, cut at the first sep.
SplitN2(s, sep) ==
    LET i == Index(s, sep)
    IN  IF i < 0 THEN <<s>>
        ELSE <<TakeBytes(s, i), DropBytes(s, i + Len(sep))>>

\* strings.Split(s, sep) for a non-empty sep: cut at every sep.
RECURSIVE Split(_, _)
Split(s, sep) ==
    LET i == Index(s, sep)
    IN  IF i < 0 THEN <<s>>
        ELSE <<TakeBytes(s, i)>> \o Split(DropBytes(s, i + Len(sep)), sep)

\* unicode.IsSpace on the bytes the model uses.
IsSpace(b) == b \in {" ", "\t", "\n", "\r"}

RECURSIVE TrimLeft(_)
TrimLeft(s) ==
    IF s # <<>> /\ IsSpace(Head(s)) THEN TrimLeft(Tail(s)) ELSE s

RECURSIVE TrimRight(_)
TrimRight(s) ==
    IF s # <<>> /\ IsSpace(s[Len(s)]) THEN TrimRight(TakeBytes(s, Len(s) - 1)) ELSE s

\* strings.TrimSpace
TrimSpace(s) == TrimRight(TrimLeft(s))

\* strconv.Itoa
RECURSIVE ItoaNat(_)
ItoaNat(n) ==
    IF n < 10 THEN <<Digits[n + 1]>>
    ELSE ItoaNat(n \div 10) \o <<Digits[(n % 10) + 1]>>

Itoa(n) == IF n < 0 THEN <<"-">> \o ItoaNat(0 - n) ELSE ItoaNat(n)

\* The value of a string of decimal digits.
RECURSIVE DigitsVal(_)
DigitsVal(s) ==
    IF s = <<>> THEN 0
    ELSE 10 * DigitsVal(TakeBytes(s, Len(s) - 1)) + DigitVal(s[Len(s)])

\* strconv.Atoi: an optional sign, then one or more digits; anything else is
\* an error, and the value returned with an error is 0.
Atoi(s) ==
    LET signed == s # <<>> /\ Head(s) \in {"+", "-"}
        digs   == IF signed THEN Tail(s) ELSE s
        ok     == digs # <<>> /\ \A i \in 1..Len(digs) : IsDigit(digs[i])
    IN  IF ~ok THEN [ok |-> FALSE, val |-> 0]
        ELSE [ok |-> TRUE,
              val |-> IF signed /\ Head(s) = "-" THEN 0 - DigitsVal(digs)
                      ELSE DigitsVal(digs)]

\* Concatenation of a sequence of byte strings.
RECURSIVE Concat(_)
Concat(ss) == IF ss = <<>> THEN <<>> ELSE Head(ss) \o Concat(Tail(ss))

(***************************************************************************)
(* String literals of server.go.                                           *)
(***************************************************************************)
HTTP11 == <<"H", "T", "T", "P", "/", "1", ".", "1">>
TxtOK == <<"O", "K">>
TxtCreated == <<"C", "r", "e", "a", "t", "e", "d">>
TxtNotFound == <<"N", "o", "t", " ", "F", "o", "u", "n", "d">>
TxtMethodNotAllowed == <<"M", "e", "t", "h", "o", "d", " ", "N", "o", "t", " ", "A", "l", "l", "o", "w", "e", "d">>
TxtInternalServerError == <<"I", "n", "t", "e", "r", "n", "a", "l", " ", "S", "e", "r", "v", "e", "r", " ", "E", "r", "r", "o", "r">>
TxtUnknown == <<"U", "n", "k", "n", "o", "w", "n">>
HdrContentType == <<"C", "o", "n", "t", "e", "n", "t", "-", "T", "y", "p", "e">>
HdrContentLength == <<"C", "o", "n", "t", "e", "n", "t", "-", "L", "e", "n", "g", "t", "h">>
HdrAllow == <<"A", "l", "l", "o", "w">>
HdrUserAgent == <<"U", "s", "e", "r", "-", "A", "g", "e", "n", "t">>
TextPlain == <<"t", "e", "x", "t", "/", "p", "l", "a", "i", "n">>
OctetStream == <<"a", "p", "p", "l", "i", "c", "a", "t", "i", "o", "n", "/", "o", "c", "t", "e", "t", "-", "s", "t", "r", "e", "a", "m">>
AllowGetPost == <<"G", "E", "T", ",", " ", "P", "O", "S", "T">>
ColonSpace == <<":", " ">>
Colon == <<":">>
GET == <<"G", "E", "T">>
POST == <<"P", "O", "S", "T">>
DELETE == <<"D", "E", "L", "E", "T", "E">>
PathEcho == <<"/", "e", "c", "h", "o">>
PathEchoSlash == <<"/", "e", "c", "h", "o", "/">>
PathUserAgent == <<"/", "u", "s", "e", "r", "-", "a", "g", "e", "n", "t">>
PathFiles == <<"/", "f", "i", "l", "e", "s">>
PathFilesSlash == <<"/", "f", "i", "l", "e", "s", "/">>
PathRoot == <<"/">>

(***************************************************************************)
(* Response and Response.String().                                         *)
(*                                                                         *)
(* A Go map is a function from header names to values; a nil map is the    *)
(* empty function (String() replaces nil by an empty map before anything   *)
(* reads it).  Go iterates over a map in an unspecified order: String()    *)
(* takes the order as a parameter, every caller chooses it with \E.        *)
(***************************************************************************)
NoHeaders == [k \in {} |-> <<>>]

\* map[k] = v
MapSet(m, k, v) == [x \in DOMAIN m \cup {k} |-> IF x = k THEN v ELSE m[x]]

\* The orders in which range may visit the keys of m.
Orders(m) ==
    {o \in [1..Cardinality(DOMAIN m) -> DOMAIN m] :
        \A i, j \in DOMAIN o : o[i] = o[j] => i = j}

\* var statusCodeToString
statusCodeToString ==
    [c \in {200, 201, 404, 405, 500} |->
        CASE c = 200 -> TxtOK
          [] c = 201 -> TxtCreated
          [] c = 404 -> TxtNotFound
          [] c = 405 -> TxtMethodNotAllowed
          [] c = 500 -> TxtInternalServerError]

\* StatusText of a table in which every code is "OK".
StatusTextOK(code) == TxtOK

\* statusText, ok := statusCodeToString[r.StatusCode]; if !ok { "Unknown" }
StatusText(code) ==
    IF code \in DOMAIN statusCodeToString THEN statusCodeToString[code]
    ELSE TxtUnknown

\* Response{StatusCode: 200}
NewResponse == [StatusCode |-> 200, Headers |-> NoHeaders, Body |-> <<>>]

\* FinalHeaders with a Content-Length that is one more than len(r.Body).
FinalHeadersLong(r) ==
    MapSet(MapSet(r.Headers, HdrContentType, TextPlain), HdrContentLength,
           Itoa(Len(r.Body) + 1))

\* FinalHeaders without the default Content-Type.
FinalHeadersNoType(r) ==
    IF HdrContentLength \in DOMAIN r.Headers THEN r.Headers
    ELSE MapSet(r.Headers, HdrContentLength, Itoa(Len(r.Body)))

\* The header map String() ranges over: Content-Type and Content-Length are
\* added only when the map does not hold them yet.
FinalHeaders(r) ==
    LET h1 == IF HdrContentType \in DOMAIN r.Headers THEN r.Headers
              ELSE MapSet(r.Headers, HdrContentType, TextPlain)
    IN  IF HdrContentLength \in DOMAIN h1 THEN h1
        ELSE MapSet(h1, HdrContentLength, Itoa(Len(r.Body)))

\* fmt.Sprintf("%s: %s\r\n", k, v) for each key in range order
HeaderString(h, order) ==
    Concat([i \in DOMAIN order |-> order[i] \o ColonSpace \o h[order[i]] \o CRLF])

\* func (r Response) String() string
String(r, order) ==
    HTTP11 \o SP \o Itoa(r.StatusCode) \o SP \o StatusText(r.StatusCode) \o CRLF
        \o HeaderString(FinalHeaders(r), order) \o CRLF \o r.Body

\* Every result String() may return for r.
StringResults(r) == {String(r, o) : o \in Orders(FinalHeaders(r))}

(***************************************************************************)
(* parseRequest.                                                           *)
(*                                                                         *)
(* A connection's input is the bytes the client sends and how the stream   *)
(* ends after them: "eof" (the client closes its sending side), "reset"    *)
(* (a read error other than io.EOF) or "open" (the client sends nothing    *)
(* more and keeps the connection open, so a read past the bytes blocks).   *)
(* The result is "ok" (request, nil), "err" (an error is returned),        *)
(* "panic" (a run-time panic: index or length out of range) or "block"     *)
(* (the read never returns); rest is what parseRequest has left unread.    *)
(***************************************************************************)
StreamEnds == {"eof", "reset", "open"}

\* Request{Headers: make(map[string]string)}
NewRequest == [Method |-> <<>>, Path |-> <<>>, Headers |-> NoHeaders, Body |-> <<>>]

\* bufio.Reader.ReadString('\n'): the bytes up to and including the first
\* '\n'; without one, everything that is left together with the error that
\* ended the stream.
ReadString(buf, end) ==
    LET i == Index(buf, <<LF>>)
    IN  IF i >= 0
        THEN [line |-> TakeBytes(buf, i + 1), rest |-> DropBytes(buf, i + 1), err |-> "nil"]
        ELSE [line |-> buf, rest |-> <<>>, err |-> end]

\* ReadFull that reports no error when fewer than n bytes arrive.
ReadFullShort(buf, end, n) ==
    [data |-> IF Len(buf) >= n THEN TakeBytes(buf, n) ELSE buf, err |-> "nil"]

\* io.ReadFull(reader, buf) with len(buf) = n
ReadFull(buf, end, n) ==
    IF Len(buf) >= n
    THEN [data |-> TakeBytes(buf, n), err |-> "nil"]
    ELSE [data |-> buf, err |-> end]

\* Lines 227-242: the body, once the blank line has ended the headers.
ReadBody(request, buf, end) ==
    IF HdrContentLength \notin DOMAIN request.Headers
    THEN [kind |-> "ok", req |-> request, rest |-> buf]
    ELSE LET contentLen == Atoi(request.Headers[HdrContentLength]).val
         IN  IF contentLen < 0
             THEN [kind |-> "panic", req |-> request, rest |-> buf]   \* make([]byte, contentLen)
             ELSE LET r == ReadFull(buf, end, contentLen)
                  IN  CASE r.err = "nil" ->
                               [kind |-> "ok", req |-> [request EXCEPT !.Body = r.data],
                                rest |-> DropBytes(buf, contentLen)]
                        [] r.err = "open" -> [kind |-> "block", req |-> request, rest |-> <<>>]
                        [] OTHER -> [kind |-> "err", req |-> request, rest |-> <<>>]

\* Lines 212-225: the header loop.
RECURSIVE ReadHeaders(_, _, _)
ReadHeaders(request, buf, end) ==
    LET r == ReadString(buf, end)
        headerParts == SplitN2(r.line, Colon)
    IN  CASE r.err = "open" -> [kind |-> "block", req |-> request, rest |-> <<>>]
          [] r.line = CRLF -> ReadBody(request, r.rest, end)
          [] r.err = "eof" -> [kind |-> "ok", req |-> request, rest |-> <<>>]
          [] r.err # "nil" -> [kind |-> "err", req |-> NewRequest, rest |-> <<>>]
          [] Len(headerParts) < 2 -> [kind |-> "panic", req |-> request, rest |-> r.rest]
          [] OTHER ->
               ReadHeaders(
                   [request EXCEPT !.Headers =
                       MapSet(@, headerParts[1], TrimSpace(headerParts[2]))],
                   r.rest, end)

\* func parseRequest(reader *bufio.Reader) (Request, error)
parseRequest(buf, end) ==
    LET r == ReadString(buf, end)
        parts == Split(r.line, SP)
    IN  CASE r.err = "open" -> [kind |-> "block", req |-> NewRequest, rest |-> <<>>]
          [] r.err # "nil" -> [kind |-> "err", req |-> NewRequest, rest |-> <<>>]
          [] Len(parts) < 2 -> [kind |-> "panic", req |-> NewRequest, rest |-> r.rest]
          [] OTHER ->
               ReadHeaders([NewRequest EXCEPT !.Method = parts[1], !.Path = parts[2]],
                           r.rest, end)

(***************************************************************************)
(* The byte-store: the file system under the storage directory.            *)
(*                                                                         *)
(* A storage key is a cleaned path.  The server creates and truncates      *)
(* regular files and never creates or removes a directory: the directories *)
(* are the root and the storage directory.                                 *)
(***************************************************************************)
Slash == <<"/">>
Dot == <<".">>
DotDot == <<".", ".">>

\* The path elements path.Clean keeps, for a rooted path: empty elements and
\* "." are dropped, ".." removes the element before it (and is dropped at
\* the root).
RECURSIVE CleanElems(_, _)
CleanElems(elems, out) ==
    IF elems = <<>> THEN out
    ELSE LET e == Head(elems)
         IN  CASE e = <<>> \/ e = Dot -> CleanElems(Tail(elems), out)
               [] e = DotDot ->
                    CleanElems(Tail(elems),
                               IF out = <<>> THEN out ELSE TakeBytes(out, Len(out) - 1))
               [] OTHER -> CleanElems(Tail(elems), Append(out, e))

\* strings.Join(elems, "/") with a leading "/"
RECURSIVE Rooted(_)
Rooted(elems) ==
    IF elems = <<>> THEN <<>> ELSE Slash \o Head(elems) \o Rooted(Tail(elems))

\* filepath.Clean of a rooted path
Clean(path) ==
    LET elems == CleanElems(Split(path, Slash), <<>>)
    IN  IF elems = <<>> THEN Slash ELSE Rooted(elems)

\* filepath.Join(d, fileName) for a rooted d: empty elements are ignored, the
\* rest joined with "/" and cleaned.
Join(d, fileName) ==
    IF fileName = <<>> THEN Clean(d) ELSE Clean(d \o Slash \o fileName)

\* The directory a path lies in.
Parent(path) == Clean(path \o Slash \o DotDot)

\* The storage directory of the runs in which --directory is given.
StorageDir == <<"/", "d">>

Directories == {Slash, StorageDir}

\* os.Stat(path): "exists", "notexist" (an error os.IsNotExist accepts) or
\* "error" (any other error: here ENOTDIR, an element of the path is a file).
StatResult(fs, path) ==
    CASE path \in Directories \/ path \in DOMAIN fs -> "exists"
      [] Parent(path) \in DOMAIN fs -> "error"
      [] OTHER -> "notexist"

\* Whether os.Create(path) can succeed: the path is no directory and lies
\* in one.
CanCreate(fs, path) == path \notin Directories /\ Parent(path) \in Directories

\* Whether os.Open(path) can succeed.
CanOpen(fs, path) == path \in Directories \/ path \in DOMAIN fs

\* WriteAtStart of a write that writes nothing.
WriteAtStartNothing(content, body) == content

\* file.WriteString(body) on a descriptor at offset 0: the bytes replace the
\* first len(body) bytes of the file and leave the rest.
WriteAtStart(content, body) == body \o DropBytes(content, Len(body))

(***************************************************************************)
(* The dispatch in handleConnection, lines 104-125.                        *)
(*                                                                         *)
(* The result names the handler's next step: "respond" (the response is    *)
(* ready), "stat" (handleFileGet), "create" (handleFilePost) or "panic"    *)
(* (pathParts[1] with a single part).                                      *)
(***************************************************************************)
\* RouteEcho with pathParts[0], the part before "/echo/", as the body.
RouteEchoBefore(req, resp) ==
    [next |-> "respond",
     resp |-> [resp EXCEPT !.Body = SplitN2(req.Path, PathEchoSlash)[1]],
     path |-> <<>>, name |-> <<>>]

RouteEcho(req, resp) ==
    LET pathParts == SplitN2(req.Path, PathEchoSlash)
    IN  IF Len(pathParts) < 2
        THEN [next |-> "panic", resp |-> resp, path |-> <<>>, name |-> <<>>]
        ELSE [next |-> "respond", resp |-> [resp EXCEPT !.Body = pathParts[2]],
              path |-> <<>>, name |-> <<>>]

\* RouteUserAgent that never reads the header.
RouteUserAgentBlank(req, resp) ==
    [next |-> "respond", resp |-> resp, path |-> <<>>, name |-> <<>>]

RouteUserAgent(req, resp) ==
    LET userAgent == IF HdrUserAgent \in DOMAIN req.Headers
                     THEN req.Headers[HdrUserAgent] ELSE <<>>
    IN  [next |-> "respond", resp |-> [resp EXCEPT !.Body = userAgent],
         path |-> <<>>, name |-> <<>>]

\* RouteFiles with a switch whose default case is the POST case.
RouteFilesDefaultPost(req, resp, d) ==
    LET pathParts == SplitN2(req.Path, PathFilesSlash)
        fileName == IF Len(pathParts) < 2 THEN <<>> ELSE pathParts[2]
    IN  [next |-> IF Len(pathParts) < 2 THEN "panic"
                  ELSE IF req.Method = GET THEN "stat" ELSE "create",
         resp |-> resp, path |-> Join(d, fileName), name |-> fileName]

RouteFiles(req, resp, d) ==
    LET pathParts == SplitN2(req.Path, PathFilesSlash)
    IN  IF Len(pathParts) < 2
        THEN [next |-> "panic", resp |-> resp, path |-> <<>>, name |-> <<>>]
        ELSE LET fileName == pathParts[2]
                 path == Join(d, fileName)
             IN  CASE req.Method = GET ->
                          [next |-> "stat", resp |-> resp, path |-> path, name |-> fileName]
                   [] req.Method = POST ->
                          [next |-> "create", resp |-> resp, path |-> path, name |-> fileName]
                   [] OTHER ->
                          [next |-> "respond",
                           resp |-> [resp EXCEPT
                                        !.Headers = MapSet(NoHeaders, HdrAllow, AllowGetPost),
                                        !.StatusCode = 405],
                           path |-> path, name |-> fileName]

RouteNotFound(req, resp) ==
    [next |-> "respond",
     resp |-> IF req.Path # PathRoot THEN [resp EXCEPT !.StatusCode = 404] ELSE resp,
     path |-> <<>>, name |-> <<>>]

\* Dispatch with a /files branch that does not test dir != "".
DispatchAnyDir(req, resp, d) ==
    CASE HasPrefix(req.Path, PathEcho) -> RouteEcho(req, resp)
      [] req.Path = PathUserAgent -> RouteUserAgent(req, resp)
      [] HasPrefix(req.Path, PathFiles) -> RouteFiles(req, resp, d)
      [] OTHER -> RouteNotFound(req, resp)

\* The if / else-if chain of lines 104-125.
Dispatch(req, resp, d) ==
    CASE HasPrefix(req.Path, PathEcho) -> RouteEcho(req, resp)
      [] req.Path = PathUserAgent -> RouteUserAgent(req, resp)
      [] HasPrefix(req.Path, PathFiles) /\ d # <<>> -> RouteFiles(req, resp, d)
      [] OTHER -> RouteNotFound(req, resp)

(***************************************************************************)
(* What the clients send.                                                  *)
(***************************************************************************)
HeaderLine(k, v) == k \o ColonSpace \o v \o CRLF

\* A well-formed HTTP/1.1 request; lines are its header lines.
Raw(method, path, lines, body) ==
    method \o SP \o path \o SP \o HTTP11 \o CRLF \o Concat(lines) \o CRLF \o body

\* A client that sends a complete request and waits for the answer.
Sends(bytes) == [in |-> bytes, end |-> "open"]

\* A client whose stream ends (end) after bytes.
Cut(bytes, end) == [in |-> bytes, end |-> end]

EchoRemainders ==
    StringsUpTo({"a", "/"}, MaxEchoLen) \cup {<<"x", "/", "e", "c", "h", "o", "/", "y">>}

RoutePaths ==
    {PathRoot, PathEcho, PathUserAgent, PathFiles,
     PathEcho \o <<"e", "s">>,
     PathEcho \o <<"e", "s">> \o PathEchoSlash \o <<"x">>,
     PathFiles \o <<"y", "s", "t", "e", "m">>,
     PathFilesSlash, PathFilesSlash \o <<"a">>,
     PathUserAgent \o <<"/">>,
     <<"/", "n", "o", "p", "e">>}
        \cup {PathEchoSlash \o s : s \in EchoRemainders}

Methods == {GET, POST, DELETE}

UserAgentValue == <<"u", "a", "/", "1">>

ContentLengthLine(n) == HeaderLine(HdrContentLength, Itoa(n))

HdrConnection == <<"C", "o", "n", "n", "e", "c", "t", "i", "o", "n">>

KeepAlive == <<"k", "e", "e", "p", "-", "a", "l", "i", "v", "e">>

Close == <<"c", "l", "o", "s", "e">>

\* A second request, sent on the same connection right after the first.
NextRequest == Raw(GET, PathEchoSlash \o <<"a">>, <<>>, <<>>)

\* Two requests on one connection, the first with a Connection header.
Pipelined(connection) ==
    Raw(GET, PathRoot, <<HeaderLine(HdrConnection, connection)>>, <<>>) \o NextRequest

\* Every method on every path, the User-Agent header present, a POST with a
\* body, and requests that are cut short or malformed.
RoutesPool ==
    {Sends(Raw(m, p, <<>>, <<>>)) : m \in Methods, p \in RoutePaths}
        \cup {Sends(Raw(GET, PathUserAgent, <<HeaderLine(HdrUserAgent, UserAgentValue)>>, <<>>)),
              Sends(Raw(POST, PathFilesSlash \o <<"a">>, <<ContentLengthLine(2)>>, <<"x", "y">>)),
              Cut(Raw(POST, PathFilesSlash \o <<"a">>, <<ContentLengthLine(2)>>, <<"x">>), "eof"),
              Cut(Raw(POST, PathFilesSlash \o <<"a">>, <<ContentLengthLine(2)>>, <<"x">>), "open"),
              Sends(Pipelined(KeepAlive)),
              Sends(Pipelined(Close)),
              Cut(GET, "eof"),
              Cut(GET \o CRLF, "eof"),
              Cut(GET \o SP \o PathRoot \o SP \o HTTP11 \o CRLF \o HdrUserAgent, "reset")}

\* POSTs of different bodies to one file, and a request that cannot be
\* parsed.
FilesPool ==
    {Sends(Raw(POST, PathFilesSlash \o <<"a">>, <<ContentLengthLine(2)>>, <<"x", "y">>)),
     Sends(Raw(POST, PathFilesSlash \o <<"a">>, <<ContentLengthLine(1)>>, <<"z">>)),
     Cut(GET, "eof")}

\* A POST to the same file under another name, a GET of a file nothing is
\* POSTed to, and a GET of a name below the name of a file.
AliasPool ==
    {Sends(Raw(POST, PathFilesSlash \o <<".", "/", "a">>, <<ContentLengthLine(1)>>, <<"w">>)),
     Sends(Raw(GET, PathFilesSlash \o <<"b">>, <<>>, <<>>)),
     Sends(Raw(GET, PathFilesSlash \o <<"a", "/", "b">>, <<>>, <<>>))}

\* "sequence": a client that sends any of the requests one after another,
\* each on a new connection once the one before has been answered.
\* "concurrent": clients that connect once, at the same time, and POST.
Pool ==
    IF workload = "sequence" THEN RoutesPool \cup FilesPool \cup AliasPool
    ELSE FilesPool

(***************************************************************************)
(* State.                                                                  *)
(***************************************************************************)
Conns == 1..MaxConcurrent

\* What had been POSTed when the store decided a GET handler's answer: the
\* bodies of the last completed POST to its file name and to its storage
\* key (each a sequence of zero or one body).
NoSeen == [set |-> FALSE, byName |-> <<>>, byKey |-> <<>>]

IdleConn ==
    [pc     |-> "idle",      \* where the handler goroutine is
     in     |-> <<>>,        \* the bytes the client sends
     unread |-> <<>>,        \* the bytes of in that stream.Reader has not handed out
     end    |-> "eof",       \* how the client's stream ends
     req    |-> NewRequest,  \* req, once parsed
     resp   |-> NewResponse, \* resp
     path   |-> <<>>,        \* path: filepath.Join(dir, fileName)
     name   |-> <<>>,        \* fileName
     wbuf   |-> <<>>,        \* the bytes in stream's bufio.Writer
     wire   |-> <<>>,        \* the bytes conn.Write has sent
     closed |-> FALSE,       \* conn.Close() has run
     sent   |-> <<>>,        \* history: the result of resp.String()
     at     |-> "",          \* history: the step at which the handler exited or panicked
     ioerr  |-> FALSE,       \* history: an Open, ReadAll, Create, WriteString or Sync failed
     fault  |-> FALSE,       \* history: the environment failed a store operation
     ops    |-> <<>>,        \* history: the store operations of this handler
     stat   |-> "",          \* history: what the store held for path at os.Stat
     seen   |-> NoSeen,
     parsed |-> 0,           \* history: the calls of parseRequest
     written |-> 0]          \* history: the calls of stream.WriteString

NoSer == [resp |-> NewResponse, out |-> <<>>, called |-> FALSE]

\* The server has bound its port; no connection has been accepted, the
\* storage directory is empty.
Init ==
    /\ process = "running"
    /\ workload \in {"sequence", "concurrent"}
    /\ dir \in IF workload = "sequence" THEN {<<>>, StorageDir} ELSE {StorageDir}
    /\ files = NoHeaders
    /\ conns = [c \in Conns |-> IdleConn]
    /\ lastPost = NoHeaders
    /\ lastKey = NoHeaders
    /\ faults = 0
    /\ ser = NoSer

Running == process = "running"

\* The environment fails operations in the sequence workload, at most
\* MaxFaults of them in a run.
CanFail == workload = "sequence" /\ faults < MaxFaults

\* os.Exit(1) in the handler of c: the process ends, no deferred call runs.
Exit(c, conn, step) ==
    /\ process' = "exited"
    /\ conns' = [conns EXCEPT ![c] = [conn EXCEPT !.pc = "exited", !.at = step]]

\* A panic in the handler of c: its deferred conn.Close() runs, then the
\* run time ends the process.
Panic(c, conn, step) ==
    /\ process' = "crashed"
    /\ conns' = [conns EXCEPT ![c] =
                    [conn EXCEPT !.pc = "panicked", !.at = step, !.closed = TRUE]]

\* Proper-prefix lengths of a failed write of n bytes (representatives).
PartialLengths(n) == {k \in {0, n - 1} : 0 <= k /\ k < n}

(***************************************************************************)
(* main's accept loop, lines 76-85.                                        *)
(***************************************************************************)
\* The clients' side of the workload: whether connection c may arrive now.
Arrives(c) ==
    /\ conns[c].pc = "idle"
    /\ \A d \in Conns : d < c => conns[d].pc # "idle"
    /\ workload = "sequence" => c = 1

\* conn, err := l.Accept(); go handleConnection(conn, dir)
Accept(c) ==
    /\ Running
    /\ Arrives(c)
    /\ \E r \in Pool :
          conns' = [conns EXCEPT ![c] =
                       [IdleConn EXCEPT !.pc = "parse", !.in = r.in, !.unread = r.in,
                                        !.end = r.end]]
    /\ UNCHANGED <<process, dir, files, lastPost, lastKey, faults, workload, ser>>

\* l.Accept() fails: main prints and calls os.Exit(1).
AcceptFail ==
    /\ Running
    /\ CanFail
    /\ \E c \in Conns : conns[c].pc = "idle"
    /\ process' = "exited"
    /\ faults' = faults + 1
    /\ UNCHANGED <<dir, files, conns, lastPost, lastKey, workload, ser>>

\* The client of the sequence workload has read the answer of c and the
\* closed connection is gone: the next one may arrive.
Release(c) ==
    /\ workload = "sequence"
    /\ conns[c].pc = "done"
    /\ conns' = [conns EXCEPT ![c] = IdleConn]
    /\ UNCHANGED <<process, dir, files, lastPost, lastKey, faults, workload, ser>>

(***************************************************************************)
(* handleConnection, lines 88-138.                                         *)
(***************************************************************************)
\* Lines 97-102: req, err := parseRequest(stream.Reader); on an error the
\* handler prints and calls os.Exit(1).
Parse(c) ==
    LET conn == conns[c]
        r == parseRequest(conn.unread, conn.end)
        here == [conn EXCEPT !.unread = r.rest, !.parsed = @ + 1]
    IN  /\ Running
        /\ conn.pc = "parse"
        /\ r.kind # "block"
        /\ CASE r.kind = "ok" ->
                   /\ conns' = [conns EXCEPT ![c] = [here EXCEPT !.pc = "route", !.req = r.req]]
                   /\ UNCHANGED process
             [] r.kind = "err" -> Exit(c, here, "parse")
             [] OTHER -> Panic(c, here, "parse")
        /\ UNCHANGED <<dir, files, lastPost, lastKey, faults, workload, ser>>

\* Lines 104-125, up to the call of handleFileGet or handleFilePost.
Route(c) ==
    LET conn == conns[c]
        d == Dispatch(conn.req, conn.resp, dir)
    IN  /\ Running
        /\ conn.pc = "route"
        /\ IF d.next = "panic"
           THEN Panic(c, [conn EXCEPT !.resp = d.resp], "route")
           ELSE /\ conns' = [conns EXCEPT ![c] =
                                [conn EXCEPT !.pc = d.next, !.resp = d.resp,
                                             !.path = d.path, !.name = d.name]]
                /\ UNCHANGED process
        /\ UNCHANGED <<dir, files, lastPost, lastKey, faults, workload, ser>>

\* stream.WriteString(resp.String()), lines 127-131.  A response that fits
\* the buffer is only buffered.  Of a longer one, bufio writes the full
\* buffers through to the socket and keeps the rest; when such a write fails
\* part of it may have been sent, and the handler calls os.Exit(1).
WriteString(c) ==
    LET conn == conns[c]
    IN  /\ Running
        /\ conn.pc = "respond"
        /\ \E s \in StringResults(conn.resp) :
              LET through == IF Len(s) <= BufSize THEN 0
                             ELSE ((Len(s) - 1) \div BufSize) * BufSize
              IN  \/ /\ conns' = [conns EXCEPT ![c] =
                                     [conn EXCEPT !.pc = "flush", !.sent = s,
                                                  !.wire = @ \o TakeBytes(s, through),
                                                  !.wbuf = DropBytes(s, through),
                                                  !.written = @ + 1]]
                     /\ UNCHANGED <<process, faults>>
                  \/ /\ through > 0
                     /\ CanFail
                     /\ \E k \in PartialLengths(through) :
                           Exit(c, [conn EXCEPT !.sent = s, !.wire = @ \o TakeBytes(s, k),
                                                !.written = @ + 1], "write")
                     /\ faults' = faults + 1
        /\ UNCHANGED <<dir, files, lastPost, lastKey, workload, ser>>

\* Flush of a handler that serves the next request of the connection when
\* the client has sent more.
FlushKeepAlive(c) ==
    LET conn == conns[c]
        flushed == [conn EXCEPT !.wire = @ \o conn.wbuf, !.wbuf = <<>>]
    IN  /\ Running
        /\ conn.pc = "flush"
        /\ conns' = [conns EXCEPT ![c] =
                        IF conn.unread # <<>>
                        THEN [flushed EXCEPT !.pc = "parse", !.resp = NewResponse]
                        ELSE [flushed EXCEPT !.pc = "done", !.closed = TRUE]]
        /\ UNCHANGED <<process, dir, files, lastPost, lastKey, faults, workload, ser>>

\* stream.Flush(), lines 133-137, and the return that runs the deferred
\* conn.Close().  When the write fails part of the buffer may have been
\* sent, and the handler calls os.Exit(1).
Flush(c) ==
    LET conn == conns[c]
    IN  /\ Running
        /\ conn.pc = "flush"
        /\ \/ /\ conns' = [conns EXCEPT ![c] =
                              [conn EXCEPT !.pc = "done", !.wire = @ \o conn.wbuf,
                                           !.wbuf = <<>>, !.closed = TRUE]]
              /\ UNCHANGED <<process, faults>>
           \/ /\ CanFail
              /\ \E k \in PartialLengths(Len(conn.wbuf)) :
                    Exit(c, [conn EXCEPT !.wire = @ \o TakeBytes(conn.wbuf, k),
                                         !.wbuf = DropBytes(conn.wbuf, k)], "flush")
              /\ faults' = faults + 1
        /\ UNCHANGED <<dir, files, lastPost, lastKey, workload, ser>>

(***************************************************************************)
(* handleFileGet, lines 169-197.  Every store operation may fail with an   *)
(* I/O error the environment produces (a fault) besides the errors the     *)
(* state of the store decides.                                             *)
(***************************************************************************)
\* The handler of c goes on to write its response.
Respond(conn, code) == [conn EXCEPT !.pc = "respond", !.resp.StatusCode = code]

\* Failed without resp.StatusCode = 500.
FailedKeepsStatus(conn, code, op) ==
    [conn EXCEPT !.pc = "respond", !.ioerr = TRUE, !.ops = Append(@, op)]

\* A store operation of the handler returned an error: the handler sets the
\* status code and returns to handleConnection.
Failed(conn, code, op) ==
    [Respond(conn, code) EXCEPT !.ioerr = TRUE, !.ops = Append(@, op)]

\* The failure is one the environment produced.
Faulted(conn, code, op) == [Failed(conn, code, op) EXCEPT !.fault = TRUE]

Snapshot(conn) ==
    [set    |-> TRUE,
     byName |-> IF conn.name \in DOMAIN lastPost THEN <<lastPost[conn.name]>> ELSE <<>>,
     byKey  |-> IF conn.path \in DOMAIN lastKey THEN <<lastKey[conn.path]>> ELSE <<>>]

\* Lines 170-173: os.Stat(path); 404 when the error is a not-exist error,
\* any other outcome (no error, or another error) goes on to os.Open.
FileStat(c) ==
    LET conn == conns[c]
        r == StatResult(files, conn.path)
        held == IF conn.path \in Directories \/ conn.path \in DOMAIN files
                THEN "present" ELSE "absent"
        here == [conn EXCEPT !.ops = Append(@, "stat"), !.stat = held]
    IN  /\ Running
        /\ conn.pc = "stat"
        /\ \/ /\ conns' = [conns EXCEPT ![c] =
                    IF r = "notexist"
                    THEN [Respond(here, 404) EXCEPT !.seen = Snapshot(conn)]
                    ELSE [here EXCEPT !.pc = "open"]]
              /\ UNCHANGED faults
           \/ /\ CanFail
              /\ conns' = [conns EXCEPT ![c] = [here EXCEPT !.pc = "open", !.fault = TRUE]]
              /\ faults' = faults + 1
        /\ UNCHANGED <<process, dir, files, lastPost, lastKey, workload, ser>>

\* Lines 175-184: os.Open(path); 500 on an error.
FileOpen(c) ==
    LET conn == conns[c]
    IN  /\ Running
        /\ conn.pc = "open"
        /\ \/ /\ conns' = [conns EXCEPT ![c] =
                    IF CanOpen(files, conn.path)
                    THEN [conn EXCEPT !.pc = "read", !.ops = Append(@, "open")]
                    ELSE Failed(conn, 500, "open")]
              /\ UNCHANGED faults
           \/ /\ CanFail
              /\ conns' = [conns EXCEPT ![c] = Faulted(conn, 500, "open")]
              /\ faults' = faults + 1
        /\ UNCHANGED <<process, dir, files, lastPost, lastKey, workload, ser>>

\* Lines 186-196: io.ReadAll(file); 500 on an error (a directory cannot be
\* read), else the content is the body and Headers a new map.
FileRead(c) ==
    LET conn == conns[c]
    IN  /\ Running
        /\ conn.pc = "read"
        /\ \/ /\ conns' = [conns EXCEPT ![c] =
                    IF conn.path \in DOMAIN files
                    THEN [conn EXCEPT !.pc = "respond",
                                      !.resp.Body = files[conn.path],
                                      !.resp.Headers =
                                          MapSet(NoHeaders, HdrContentType, OctetStream),
                                      !.ops = Append(@, "read"),
                                      !.seen = Snapshot(conn)]
                    ELSE Failed(conn, 500, "read")]
              /\ UNCHANGED faults
           \/ /\ CanFail
              /\ conns' = [conns EXCEPT ![c] = Faulted(conn, 500, "read")]
              /\ faults' = faults + 1
        /\ UNCHANGED <<process, dir, files, lastPost, lastKey, workload, ser>>

(***************************************************************************)
(* handleFilePost, lines 140-167.                                          *)
(***************************************************************************)
\* Lines 141-150: os.Create(path) creates the file or truncates it; 500 on
\* an error.
FileCreate(c) ==
    LET conn == conns[c]
    IN  /\ Running
        /\ conn.pc = "create"
        /\ \/ /\ IF CanCreate(files, conn.path)
                 THEN /\ files' = MapSet(files, conn.path, <<>>)
                      /\ conns' = [conns EXCEPT ![c] =
                                      [conn EXCEPT !.pc = "write", !.ops = Append(@, "create")]]
                 ELSE /\ conns' = [conns EXCEPT ![c] = Failed(conn, 500, "create")]
                      /\ UNCHANGED files
              /\ UNCHANGED faults
           \/ /\ CanFail
              /\ conns' = [conns EXCEPT ![c] = Faulted(conn, 500, "create")]
              /\ faults' = faults + 1
              /\ UNCHANGED files
        /\ UNCHANGED <<process, dir, lastPost, lastKey, workload, ser>>

\* Lines 152-157: file.WriteString(req.Body); 500 on an error, which may
\* leave part of the body written.
FileWrite(c) ==
    LET conn == conns[c]
        body == conn.req.Body
    IN  /\ Running
        /\ conn.pc = "write"
        /\ \/ /\ files' = [files EXCEPT ![conn.path] = WriteAtStart(@, body)]
              /\ conns' = [conns EXCEPT ![c] =
                              [conn EXCEPT !.pc = "sync", !.ops = Append(@, "write")]]
              /\ UNCHANGED faults
           \/ /\ CanFail
              /\ \E k \in PartialLengths(Len(body)) \cup {0} :
                    files' = [files EXCEPT ![conn.path] = WriteAtStart(@, TakeBytes(body, k))]
              /\ conns' = [conns EXCEPT ![c] = Faulted(conn, 500, "write")]
              /\ faults' = faults + 1
        /\ UNCHANGED <<process, dir, lastPost, lastKey, workload, ser>>

\* Lines 159-166: file.Sync(); 500 on an error, else 201.
FileSync(c) ==
    LET conn == conns[c]
    IN  /\ Running
        /\ conn.pc = "sync"
        /\ \/ /\ conns' = [conns EXCEPT ![c] =
                              [Respond(conn, 201) EXCEPT !.ops = Append(@, "sync")]]
              /\ lastPost' = MapSet(lastPost, conn.name, conn.req.Body)
              /\ lastKey' = MapSet(lastKey, conn.path, conn.req.Body)
              /\ UNCHANGED faults
           \/ /\ CanFail
              /\ conns' = [conns EXCEPT ![c] = Faulted(conn, 500, "sync")]
              /\ faults' = faults + 1
              /\ UNCHANGED <<lastPost, lastKey>>
        /\ UNCHANGED <<process, dir, files, workload, ser>>

(***************************************************************************)
(* The server.                                                             *)
(***************************************************************************)
Next ==
    \/ AcceptFail
    \/ \E c \in Conns :
          \/ Accept(c)
          \/ Release(c)
          \/ Parse(c)
          \/ Route(c)
          \/ FileStat(c)
          \/ FileOpen(c)
          \/ FileRead(c)
          \/ FileCreate(c)
          \/ FileWrite(c)
          \/ FileSync(c)
          \/ WriteString(c)
          \/ Flush(c)

Spec == Init /\ [][Next]_vars

(***************************************************************************)
(* Response.String() on its own: any status code, header map and body.     *)
(***************************************************************************)
StatusCodes == {200, 201, 404, 405, 500, 0, 418}

GivenValues(k) ==
    CASE k = HdrContentLength -> {<<"0">>, <<"1">>, <<"7">>}
      [] k = HdrAllow -> {AllowGetPost}
      [] OTHER -> {OctetStream}

\* Header maps that hold any of Content-Type, Allow and Content-Length.
HeaderMaps ==
    LET names == {HdrContentType, HdrAllow, HdrContentLength}
        values == UNION {GivenValues(k) : k \in names}
    IN  UNION {{m \in [ks -> values] : \A k \in ks : m[k] \in GivenValues(k)} :
                  ks \in SUBSET names}

Bodies == StringsUpTo({"a", LF}, MaxBodyLen) \cup {CRLF \o CRLF \o <<"a">>}

InitString ==
    /\ process = "running"
    /\ workload = "none"
    /\ dir = <<>>
    /\ files = NoHeaders
    /\ conns = [c \in Conns |-> IdleConn]
    /\ lastPost = NoHeaders
    /\ lastKey = NoHeaders
    /\ faults = 0
    /\ \E code \in StatusCodes, h \in HeaderMaps, b \in Bodies :
          ser = [resp |-> [StatusCode |-> code, Headers |-> h, Body |-> b],
                 out |-> <<>>, called |-> FALSE]

\* out := r.String()
CallString ==
    /\ ~ser.called
    /\ \E s \in StringResults(ser.resp) :
          ser' = [ser EXCEPT !.out = s, !.called = TRUE]
    /\ UNCHANGED <<process, dir, files, conns, lastPost, lastKey, faults, workload>>

NextString == CallString

SpecString == InitString /\ [][NextString]_vars

(***************************************************************************)
(* What a client reads from the bytes of a response.                       *)
(***************************************************************************)
BlankLine == CRLF \o CRLF

\* The status line and the header lines: the bytes before the blank line.
HeadOf(bytes) ==
    LET i == Index(bytes, BlankLine)
    IN  IF i < 0 THEN bytes ELSE TakeBytes(bytes, i)

\* The bytes after the blank-line separator.
BodyOf(bytes) ==
    LET i == Index(bytes, BlankLine)
    IN  IF i < 0 THEN <<>> ELSE DropBytes(bytes, i + Len(BlankLine))

StatusLineOf(bytes) == Head(Split(HeadOf(bytes), CRLF))

HeaderLinesOf(bytes) == Tail(Split(HeadOf(bytes), CRLF))

\* The values of the header lines "name: value", one per line.
HeaderValues(bytes, name) ==
    LET lines == HeaderLinesOf(bytes)
        hits == {i \in DOMAIN lines : HasPrefix(lines[i], name \o ColonSpace)}
    IN  [i \in hits |-> DropBytes(lines[i], Len(name) + 2)]

\* The status line of code with its reason phrase.
StatusLine(code, reason) == HTTP11 \o SP \o Itoa(code) \o SP \o reason

\* A complete response: a status line, header lines of which exactly one is
\* Content-Length, a blank line, and a body of the declared length.
Framed(bytes) ==
    LET i == Index(bytes, BlankLine)
        lines == Split(TakeBytes(bytes, i), CRLF)
        name == HdrContentLength \o ColonSpace
        lengths == {k \in 2..Len(lines) : HasPrefix(lines[k], name)}
    IN  /\ i >= 0
        /\ HasPrefix(lines[1], HTTP11 \o SP)
        /\ Cardinality(lengths) = 1
        /\ \A k \in lengths :
              LET n == Atoi(DropBytes(lines[k], Len(name)))
              IN  n.ok /\ n.val = Len(bytes) - (i + Len(BlankLine))

IsPrefix(p, s) == Len(p) <= Len(s) /\ TakeBytes(s, Len(p)) = p

(***************************************************************************)
(* C1.  For every Response, also one whose header map already holds a      *)
(* Content-Length entry, the bytes String() returns declare a              *)
(* Content-Length equal to the length of the body, and the bytes after the *)
(* blank line are the body.  (Checked under SpecString.)                   *)
(***************************************************************************)
C1_RoundTripFraming ==
    ser.called =>
        /\ Framed(ser.out)
        /\ \A i \in DOMAIN HeaderValues(ser.out, HdrContentLength) :
              Atoi(HeaderValues(ser.out, HdrContentLength)[i]).val = Len(ser.resp.Body)
        /\ BodyOf(ser.out) = ser.resp.Body

(***************************************************************************)
(* Where a handler is.                                                     *)
(***************************************************************************)
\* The dispatch is over and the response is the one the handler writes.
Answered(conn) ==
    \/ conn.pc \in {"respond", "flush", "done"}
    \/ conn.pc = "exited" /\ conn.at \in {"write", "flush"}

\* The dispatch has run: it answered, called a file handler or panicked.
Dispatched(conn) ==
    \/ Answered(conn)
    \/ conn.pc \in {"stat", "open", "read", "create", "write", "sync"}
    \/ conn.pc = "panicked" /\ conn.at = "route"

\* The request is one to /files/<name> with a storage directory configured.
FileRequest(conn) == dir # <<>> /\ HasPrefix(conn.req.Path, PathFilesSlash)

\* No store operation has failed: none by the environment in this run, none
\* in this handler.
NoStoreError(conn) == faults = 0 /\ ~conn.ioerr

HasHeader(bytes, name, value) ==
    \E i \in DOMAIN HeaderValues(bytes, name) : HeaderValues(bytes, name)[i] = value

(***************************************************************************)
(* C2.  Requests sent one after another, storage directory configured, no  *)
(* store error: every POST to /files/<name> answers 201 with an empty      *)
(* body, and every GET of a name that has been POSTed answers 200 with the *)
(* body of the last completed POST to that name and Content-Type           *)
(* application/octet-stream.                                               *)
(***************************************************************************)
PostAnswer(conn) ==
    /\ conn.resp.StatusCode = 201
    /\ conn.resp.Body = <<>>
    /\ conn.pc = "done" =>
          /\ StatusLineOf(conn.wire) = StatusLine(201, TxtCreated)
          /\ BodyOf(conn.wire) = <<>>

GetAnswer(conn, body) ==
    /\ conn.resp.StatusCode = 200
    /\ conn.resp.Body = body
    /\ conn.pc = "done" =>
          /\ StatusLineOf(conn.wire) = StatusLine(200, TxtOK)
          /\ BodyOf(conn.wire) = body
          /\ HasHeader(conn.wire, HdrContentType, OctetStream)

\* The claim as stated: the GET answers what was last POSTed to its name.
C2_RoundTripByName ==
    \A c \in Conns :
        LET conn == conns[c]
        IN  (workload = "sequence" /\ Answered(conn) /\ FileRequest(conn)
                 /\ NoStoreError(conn))
            => /\ conn.req.Method = POST => PostAnswer(conn)
               /\ (conn.req.Method = GET /\ conn.seen.byName # <<>>)
                     => GetAnswer(conn, conn.seen.byName[1])

\* Amended: the GET answers what was last POSTed to its storage key,
\* filepath.Join(dir, name), whatever the name of that POST was.
C2_RoundTripByKey ==
    \A c \in Conns :
        LET conn == conns[c]
        IN  (workload = "sequence" /\ Answered(conn) /\ FileRequest(conn)
                 /\ NoStoreError(conn))
            => /\ conn.req.Method = POST => PostAnswer(conn)
               /\ (conn.req.Method = GET /\ conn.seen.byKey # <<>>)
                     => GetAnswer(conn, conn.seen.byKey[1])

\* A GET of /files/a is answered with the body POSTed to /files/./a after
\* another body had been POSTed to /files/a.
C2_Witness ==
    \E c \in Conns :
        /\ conns[c].pc = "done"
        /\ conns[c].req.Method = GET
        /\ conns[c].seen.byName # <<>>
        /\ conns[c].seen.byKey # conns[c].seen.byName
        /\ BodyOf(conns[c].wire) = conns[c].seen.byKey[1]
        /\ BodyOf(conns[c].wire) # <<>>

(***************************************************************************)
(* C3.  A failure while one connection is handled (the request cannot be   *)
(* parsed, the socket write or the flush fails) ends only that handler:    *)
(* the server process keeps running.                                       *)
(***************************************************************************)
C3_FailureIsolated ==
    \A c \in Conns :
        (conns[c].pc = "exited" /\ conns[c].at \in {"parse", "write", "flush"})
            => process = "running"

(***************************************************************************)
(* C4.  The connection is closed on every exit path of handleConnection:   *)
(* after the response, after a parse failure, after a write failure and    *)
(* after a flush failure.                                                  *)
(***************************************************************************)
C4_ClosedOnEveryExit ==
    \A c \in Conns :
        conns[c].pc \in {"done", "exited"} => conns[c].closed

(***************************************************************************)
(* C5.  A path that does not start with "/echo/", is not "/user-agent",    *)
(* does not start with "/files/" (directory configured) and is not "/" is  *)
(* answered with 404 and an empty body; "/" is answered with 200 and an    *)
(* empty body.                                                             *)
(***************************************************************************)
UnknownPath(path) ==
    /\ ~HasPrefix(path, PathEchoSlash)
    /\ path # PathUserAgent
    /\ ~(HasPrefix(path, PathFilesSlash) /\ dir # <<>>)
    /\ path # PathRoot

C5_NotFound ==
    \A c \in Conns :
        LET conn == conns[c]
        IN  Dispatched(conn) =>
               /\ UnknownPath(conn.req.Path) =>
                     /\ Answered(conn)
                     /\ conn.resp.StatusCode = 404
                     /\ conn.resp.Body = <<>>
               /\ conn.req.Path = PathRoot =>
                     /\ Answered(conn)
                     /\ conn.resp.StatusCode = 200
                     /\ conn.resp.Body = <<>>

(***************************************************************************)
(* C6.  For every s without the substring "/echo/", a request to           *)
(* "/echo/" + s, whatever its method, is answered with 200 and the body s. *)
(***************************************************************************)
C6_Echo ==
    \A c \in Conns :
        LET conn == conns[c]
            s == DropBytes(conn.req.Path, Len(PathEchoSlash))
        IN  (Dispatched(conn) /\ HasPrefix(conn.req.Path, PathEchoSlash)
                 /\ ~Contains(s, PathEchoSlash))
            => /\ Answered(conn)
               /\ conn.resp.StatusCode = 200
               /\ conn.resp.Body = s
               /\ conn.pc = "done" =>
                     /\ StatusLineOf(conn.wire) = StatusLine(200, TxtOK)
                     /\ BodyOf(conn.wire) = s

\* A POST to /echo/a/ has been answered with the body "a/".
C6_Witness ==
    \E c \in Conns :
        /\ conns[c].pc = "done"
        /\ conns[c].req.Method = POST
        /\ conns[c].req.Path = PathEchoSlash \o <<"a", "/">>
        /\ BodyOf(conns[c].wire) = <<"a", "/">>


(***************************************************************************)
(* C7.  The bytes a client receives are either nothing or one complete,    *)
(* correctly framed response; when the request cannot be parsed nothing is *)
(* written to the connection.                                              *)
(***************************************************************************)
\* The client of conn receives nothing more: the connection is closed or
\* the process has ended.
Over(conn) == conn.pc # "idle" /\ (conn.closed \/ process # "running")

\* The claim as stated, for what a client has received in the end.
C7_NothingOrComplete ==
    \A c \in Conns :
        LET conn == conns[c]
        IN  Over(conn) =>
               /\ conn.wire = <<>> \/ (conn.wire = conn.sent /\ Framed(conn.wire))
               /\ conn.at = "parse" => conn.wire = <<>>

\* Amended: at every moment the bytes received are a prefix of one complete,
\* correctly framed response, all of it once the handler has returned, and
\* nothing when the request cannot be parsed.
C7_PrefixOfComplete ==
    \A c \in Conns :
        LET conn == conns[c]
        IN  /\ IsPrefix(conn.wire, conn.sent)
            /\ conn.sent # <<>> =>
                  /\ Framed(conn.sent)
                  /\ conn.sent \in StringResults(conn.resp)
                  /\ BodyOf(conn.sent) = conn.resp.Body
            /\ conn.pc = "done" => conn.wire = conn.sent /\ conn.sent # <<>>
            /\ conn.at = "parse" => conn.wire = <<>>
            /\ conn.pc \in {"parse", "route", "stat", "open", "read", "create",
                            "write", "sync", "respond"} => conn.wire = <<>>

\* The client has received the beginning of a response and will receive no
\* more of it.
C7_Witness ==
    \E c \in Conns :
        /\ Over(conns[c])
        /\ conns[c].wire # <<>>
        /\ conns[c].wire # conns[c].sent
        /\ IsPrefix(conns[c].wire, conns[c].sent)

(***************************************************************************)
(* C8.  With a storage directory configured, a request to /files/<name>    *)
(* with a method other than GET and POST is answered with 405 and the      *)
(* header Allow: GET, POST, and its handler does nothing to the byte-store.*)
(***************************************************************************)
C8_MethodNotAllowed ==
    \A c \in Conns :
        LET conn == conns[c]
        IN  (Dispatched(conn) /\ FileRequest(conn) /\ conn.req.Method \notin {GET, POST})
            => /\ Answered(conn)
               /\ conn.resp.StatusCode = 405
               /\ HdrAllow \in DOMAIN conn.resp.Headers
               /\ conn.resp.Headers[HdrAllow] = AllowGetPost
               /\ conn.ops = <<>>
               /\ conn.pc = "done" =>
                     /\ StatusLineOf(conn.wire) = StatusLine(405, TxtMethodNotAllowed)
                     /\ HasHeader(conn.wire, HdrAllow, AllowGetPost)

\* A DELETE of /files/a has been answered with 405 and the Allow header,
\* with a file in the store.
C8_Witness ==
    \E c \in Conns :
        /\ conns[c].pc = "done"
        /\ conns[c].req.Method = DELETE
        /\ conns[c].req.Path = PathFilesSlash \o <<"a">>
        /\ HasHeader(conns[c].wire, HdrAllow, AllowGetPost)
        /\ DOMAIN files # {}

(***************************************************************************)
(* C9.  With a storage directory configured, a GET of /files/<name> for a  *)
(* name the byte-store does not hold is answered with 404 and an empty     *)
(* body, and its handler only queries the store.                           *)
(***************************************************************************)
C9_MissingFile ==
    \A c \in Conns :
        LET conn == conns[c]
        IN  (Answered(conn) /\ FileRequest(conn) /\ conn.req.Method = GET
                 /\ conn.stat = "absent" /\ ~conn.fault)
            => /\ conn.resp.StatusCode = 404
               /\ conn.resp.Body = <<>>
               /\ \A i \in DOMAIN conn.ops : conn.ops[i] \in {"stat", "open", "read"}

(***************************************************************************)
(* C10.  When an operation of the byte-store fails with an I/O error on a  *)
(* file route (open or read on GET; create, write or sync on POST), the    *)
(* handler does not crash: it answers 500 with an empty body, the response *)
(* is written and the connection closed.                                   *)
(***************************************************************************)
C10_StoreErrorIs500 ==
    \A c \in Conns :
        LET conn == conns[c]
        IN  conn.ioerr =>
               /\ Answered(conn)
               /\ conn.resp.StatusCode = 500
               /\ conn.resp.Body = <<>>
               /\ conn.pc = "done" =>
                     /\ conn.closed
                     /\ conn.wire \in StringResults(conn.resp)
                     /\ StatusLineOf(conn.wire) = StatusLine(500, TxtInternalServerError)
                     /\ BodyOf(conn.wire) = <<>>

\* A POST whose write the environment failed has been answered with 500 and
\* its connection closed.
C10_Witness ==
    \E c \in Conns :
        /\ conns[c].pc = "done"
        /\ conns[c].closed
        /\ conns[c].ioerr
        /\ conns[c].req.Method = POST
        /\ conns[c].ops[Len(conns[c].ops)] = "write"
        /\ StatusLineOf(conns[c].wire) = StatusLine(500, TxtInternalServerError)


(***************************************************************************)
(* C11.  With no storage directory configured, a request whose path starts *)
(* with "/files/", whatever its method and body, is answered with 404 and  *)
(* an empty body, as an unknown path is, and the byte-store is neither     *)
(* read nor written.                                                       *)
(***************************************************************************)
NotFoundResponse == [NewResponse EXCEPT !.StatusCode = 404]

C11_UnconfiguredStorage ==
    \A c \in Conns :
        LET conn == conns[c]
        IN  (dir = <<>> /\ Dispatched(conn) /\ HasPrefix(conn.req.Path, PathFilesSlash))
            => /\ Answered(conn)
               /\ conn.resp = NotFoundResponse
               /\ conn.ops = <<>>
               /\ files = NoHeaders
               /\ conn.pc = "done" =>
                     /\ conn.wire \in StringResults(NotFoundResponse)
                     /\ StatusLineOf(conn.wire) = StatusLine(404, TxtNotFound)
                     /\ BodyOf(conn.wire) = <<>>

\* Without a storage directory a POST to /files/a with a body has been
\* answered with 404.
C11_Witness ==
    \E c \in Conns :
        /\ dir = <<>>
        /\ conns[c].pc = "done"
        /\ conns[c].req.Method = POST
        /\ conns[c].req.Path = PathFilesSlash \o <<"a">>
        /\ conns[c].req.Body = <<"x", "y">>
        /\ StatusLineOf(conns[c].wire) = StatusLine(404, TxtNotFound)


(***************************************************************************)
(* C12.  A request to the path "/user-agent" is answered with 200 and the  *)
(* value of its User-Agent header as the body, and with 200 and an empty   *)
(* body when it has no User-Agent header.                                  *)
(***************************************************************************)
\* The request a client sends to /user-agent with the header User-Agent.
UserAgentRequest ==
    Raw(GET, PathUserAgent, <<HeaderLine(HdrUserAgent, UserAgentValue)>>, <<>>)

C12_UserAgent ==
    \A c \in Conns :
        LET conn == conns[c]
            value == IF HdrUserAgent \in DOMAIN conn.req.Headers
                     THEN conn.req.Headers[HdrUserAgent] ELSE <<>>
        IN  (Dispatched(conn) /\ conn.req.Path = PathUserAgent)
            => /\ Answered(conn)
               /\ conn.resp.StatusCode = 200
               /\ conn.resp.Body = value
               /\ conn.in = UserAgentRequest => value = UserAgentValue
               /\ ~Contains(conn.in, HdrUserAgent \o Colon) => value = <<>>
               /\ conn.pc = "done" =>
                     /\ StatusLineOf(conn.wire) = StatusLine(200, TxtOK)
                     /\ BodyOf(conn.wire) = value

\* The request with the User-Agent header has been answered with its value.
C12_Witness ==
    \E c \in Conns :
        /\ conns[c].pc = "done"
        /\ conns[c].in = UserAgentRequest
        /\ StatusLineOf(conns[c].wire) = StatusLine(200, TxtOK)
        /\ BodyOf(conns[c].wire) = UserAgentValue


(***************************************************************************)
(* C13.  On every accepted connection at most one request is parsed and at *)
(* most one response is written before the connection is closed, whatever  *)
(* Connection header the client sends and whatever it sends after its      *)
(* first request.                                                          *)
(***************************************************************************)
C13_OneExchange ==
    \A c \in Conns :
        LET conn == conns[c]
        IN  /\ conn.parsed <= 1
            /\ conn.written <= 1
            /\ conn.pc = "done" =>
                  /\ conn.closed
                  /\ conn.parsed = 1 /\ conn.written = 1
                  /\ conn.wire = conn.sent
            /\ \A h \in {KeepAlive, Close} :
                  (conn.in = Pipelined(h) /\ conn.pc = "done") =>
                      /\ conn.req.Path = PathRoot
                      /\ conn.unread = NextRequest
                      /\ BodyOf(conn.wire) = <<>>

\* The connection of a client that sent Connection: keep-alive and a second
\* request is closed after one response, the second request unread.
C13_Witness ==
    \E c \in Conns :
        /\ conns[c].pc = "done"
        /\ conns[c].closed
        /\ conns[c].in = Pipelined(KeepAlive)
        /\ conns[c].unread = NextRequest
        /\ conns[c].written = 1


(***************************************************************************)
(* C14.  The status line String() produces holds the status code in        *)
(* decimal and then the reason phrase: "OK", "Created", "Not Found",       *)
(* "Method Not Allowed", "Internal Server Error" for 200, 201, 404, 405,   *)
(* 500 and "Unknown" for any other code.  (Checked under SpecString.)      *)
(***************************************************************************)
C14_ReasonPhrase ==
    ser.called =>
        LET code == ser.resp.StatusCode
            phrase == CASE code = 200 -> <<"O", "K">>
                        [] code = 201 -> <<"C", "r", "e", "a", "t", "e", "d">>
                        [] code = 404 -> <<"N", "o", "t", " ", "F", "o", "u", "n", "d">>
                        [] code = 405 -> <<"M", "e", "t", "h", "o", "d", " ", "N", "o", "t", " ",
                                           "A", "l", "l", "o", "w", "e", "d">>
                        [] code = 500 -> <<"I", "n", "t", "e", "r", "n", "a", "l", " ",
                                           "S", "e", "r", "v", "e", "r", " ",
                                           "E", "r", "r", "o", "r">>
                        [] OTHER -> <<"U", "n", "k", "n", "o", "w", "n">>
        IN  /\ StatusLineOf(ser.out) = HTTP11 \o SP \o Itoa(code) \o SP \o phrase
            /\ HasPrefix(ser.out, HTTP11 \o SP \o Itoa(code) \o SP \o phrase \o CRLF)

\* A response with the code 418 has been serialized as "HTTP/1.1 418 Unknown".
C14_Witness ==
    /\ ser.called
    /\ ser.resp.StatusCode = 418
    /\ StatusLineOf(ser.out) =
          HTTP11 \o <<" ", "4", "1", "8", " ", "U", "n", "k", "n", "o", "w", "n">>


(***************************************************************************)
(* parseRequest on its own: one connection whose client sends any of a set *)
(* of byte strings, well formed or not, with either line ending.           *)
(***************************************************************************)
LineEndings == {CRLF, <<LF>>}

\* Request lines with three, two, one and no token.
RequestLines ==
    {GET \o SP \o PathRoot \o SP \o HTTP11,
     POST \o SP \o PathEchoSlash \o <<"a">>,
     GET,
     <<>>}

\* Values of a Content-Length header: numbers, a negative number, text and
\* nothing.
LengthValues == {Itoa(n) : n \in 0..MaxBodyLen} \cup {<<"-", "1">>, <<"x">>, <<>>}

\* The header lines of a request, without their line endings.
HeaderSets ==
    {<<>>, <<HdrUserAgent \o ColonSpace \o UserAgentValue>>, <<HdrUserAgent>>}
        \cup {<<HdrContentLength \o ColonSpace \o v>> : v \in LengthValues}

\* The bytes of a request whose lines all end with eol.
RECURSIVE Lines(_, _)
Lines(ls, eol) == IF ls = <<>> THEN <<>> ELSE Head(ls) \o eol \o Lines(Tail(ls), eol)

\* The bytes a client sends after the blank line.
ParseBodies == StringsUpTo({"a", "b"}, MaxBodyLen)

Written(line, hs, eol, body) == Lines(<<line>> \o hs, eol) \o eol \o body

ParseInputs ==
    {Written(l, hs, eol, b) :
        l \in RequestLines, hs \in HeaderSets, eol \in LineEndings, b \in ParseBodies}
        \cup {GET \o SP \o PathRoot, GET \o SP \o PathRoot \o SP \o HTTP11 \o CRLF}

\* A connection has been accepted; its client sends bytes and then closes
\* its sending side, fails, or waits.
InitParse ==
    /\ process = "running"
    /\ workload = "parse"
    /\ dir = <<>>
    /\ files = NoHeaders
    /\ lastPost = NoHeaders
    /\ lastKey = NoHeaders
    /\ faults = 0
    /\ ser = NoSer
    /\ \E bytes \in ParseInputs, end \in StreamEnds :
          conns = [c \in Conns |->
                      IF c = 1
                      THEN [IdleConn EXCEPT !.pc = "parse", !.in = bytes,
                                            !.unread = bytes, !.end = end]
                      ELSE IdleConn]

NextParse == Parse(1)

SpecParse == InitParse /\ [][NextParse]_vars

\* The request line of the bytes a client sends, and whether its newline
\* arrives.
RequestLineOf(bytes) == ReadString(bytes, "eof").line

HasRequestLine(bytes) == Contains(bytes, <<LF>>)

(***************************************************************************)
(* C15.  parseRequest returns an error, and does not crash, when the       *)
(* stream ends before the newline of the request line or the request line  *)
(* has fewer than two space-separated tokens.  (Checked under SpecParse.)  *)
(***************************************************************************)
C15_MalformedRequest ==
    LET conn == conns[1]
    IN  (conn.parsed = 1
            /\ \/ ~HasRequestLine(conn.in)
               \/ Len(Split(RequestLineOf(conn.in), SP)) < 2)
        => conn.pc = "exited" /\ conn.at = "parse"


(***************************************************************************)
(* C16.  parseRequest accepts "\r\n" and bare "\n" line endings alike: a   *)
(* request written with "\n" parses to the Request the same request        *)
(* written with "\r\n" parses to, a blank line of either form ends the     *)
(* headers, and the parsed method and path hold no line terminator, also   *)
(* when the request line has two tokens.  (Checked under SpecParse.)       *)
(***************************************************************************)
HasTerminator(s) == \E i \in DOMAIN s : s[i] \in {CR, LF}

C16_LineEndings ==
    LET conn == conns[1]
    IN  conn.parsed = 1 =>
           /\ \A l \in RequestLines, hs \in HeaderSets, b \in ParseBodies :
                 conn.in = Written(l, hs, <<LF>>, b) =>
                     LET twin == parseRequest(Written(l, hs, CRLF, b), conn.end)
                     IN  twin.kind = "ok" => conn.pc = "route" /\ conn.req = twin.req
           /\ conn.pc = "route" =>
                 ~HasTerminator(conn.req.Method) /\ ~HasTerminator(conn.req.Path)


(***************************************************************************)
(* C17.  After the blank line that ends the headers: with a header         *)
(* Content-Length: N, N a non-negative integer, and at least N bytes       *)
(* following, the body is exactly the next N bytes; when the connection    *)
(* closes before N bytes have arrived parseRequest fails; without a        *)
(* Content-Length header the body is empty and nothing more is read.       *)
(* (Checked under SpecParse.)                                              *)
(***************************************************************************)
\* Request lines with at least two tokens.
GoodLines == {l \in RequestLines : Len(Split(l, SP)) >= 2}

\* Header sets without a Content-Length header (and with a colon in every
\* line).
NoLengthSets == {<<>>, <<HdrUserAgent \o ColonSpace \o UserAgentValue>>}

BadLengthValues == {v \in LengthValues : \E i \in DOMAIN v : ~IsDigit(v[i])} \cup {<<>>}

C18_BadContentLength ==
    LET conn == conns[1]
    IN  conn.parsed = 1 =>
           \A l \in GoodLines, v \in BadLengthValues, b \in ParseBodies :
              conn.in = Written(l, <<HdrContentLength \o ColonSpace \o v>>, CRLF, b)
              => \/ conn.pc = "route" /\ conn.req.Body = <<>>
                 \/ conn.pc = "exited" /\ conn.at = "parse"


(***************************************************************************)
(* C19.  When POST requests to one /files/<name> key are handled           *)
(* concurrently and all have completed without an error, the content       *)
(* stored under the key is the complete body of one of them, never a       *)
(* mixture of bytes of different bodies.                                   *)
(***************************************************************************)
\* The connections whose handler has been given key by a POST.
Posters(key) ==
    {c \in Conns : conns[c].req.Method = POST /\ conns[c].path = key
                      /\ Dispatched(conns[c])}

C19_LastWriterWins ==
    workload = "concurrent" =>
        \A key \in DOMAIN files :
            (/\ Cardinality(Posters(key)) >= 2
             /\ \A c \in Posters(key) :
                   Answered(conns[c]) /\ conns[c].resp.StatusCode = 201)
            => \E c \in Posters(key) : files[key] = conns[c].req.Body


(***************************************************************************)
(* C20.  Every response the server writes, on every route, has exactly one *)
(* Content-Type header and exactly one Content-Length header: the          *)
(* Content-Type is application/octet-stream on a successful file GET and   *)
(* text/plain on every other response, the 405 response with its Allow     *)
(* header included, and the Content-Length is the byte length of the body. *)
(***************************************************************************)
\* The header lines among lines that start with "name: ".
LinesOf(lines, name) ==
    {i \in DOMAIN lines : HasPrefix(lines[i], name \o ColonSpace)}

\* The handler of conn is handleFileGet and has read the file.  (sent, the
\* response, is assigned by WriteString alone: C20 examines it in the states
\* WriteString leads to, and what has been written once the handler is done.)
FileServed(conn) ==
    /\ FileRequest(conn)
    /\ conn.req.Method = GET
    /\ conn.resp.StatusCode = 200

C20_TypeAndLength ==
    \A c \in Conns :
        LET conn == conns[c]
            lines == HeaderLinesOf(conn.sent)
            type == IF FileServed(conn) THEN OctetStream ELSE TextPlain
        IN  /\ (conn.pc = "flush" \/ conn.at = "write") =>
               /\ conn.sent # <<>>
               /\ Cardinality(LinesOf(lines, HdrContentType)) = 1
               /\ \A i \in LinesOf(lines, HdrContentType) :
                     lines[i] = HdrContentType \o ColonSpace \o type
               /\ Cardinality(LinesOf(lines, HdrContentLength)) = 1
               /\ \A i \in LinesOf(lines, HdrContentLength) :
                     lines[i] = HdrContentLength \o ColonSpace \o Itoa(Len(conn.resp.Body))
            /\ conn.pc = "done" => conn.wire = conn.sent /\ conn.sent # <<>>

\* A DELETE of /files/a has been answered with 405, Allow and text/plain.
C20_Witness ==
    \E c \in Conns :
        /\ conns[c].pc = "done"
        /\ conns[c].resp.StatusCode = 405
        /\ HasHeader(conns[c].wire, HdrAllow, AllowGetPost)
        /\ HasHeader(conns[c].wire, HdrContentType, TextPlain)
        /\ HasHeader(conns[c].wire, HdrContentLength, <<"0">>)

=============================================================================
